---- MODULE Spec2Model ----
(***************************************************************************)
(* Model of reco_utils/dataset/pandas_df_utils.py: user_item_pairs,        *)
(* filter_by, libffm_converter and negative_feedback_sampler.              *)
(*                                                                         *)
(* A pandas DataFrame is a record [columns, rows]: columns is the sequence *)
(* of column names, rows the sequence of rows, each row a sequence of cell *)
(* values aligned with columns.  Each function is a call: the initial      *)
(* state holds the arguments of the call, the action runs the whole        *)
(* function body and stores what the caller can observe afterwards.        *)
(***************************************************************************)
EXTENDS Integers, Sequences, FiniteSets, TLC

VARIABLES
    pc,              \* "call" before the call, "returned" after it
    df,              \* filter_by: source dataframe
    filter_by_df,    \* filter_by: filter dataframe
    filter_by_cols,  \* filter_by: key column names
    fb_result,       \* filter_by: what the call produced
    user_df,         \* user_item_pairs: the caller's user dataframe object
    item_df,         \* user_item_pairs: the caller's item dataframe object
    user_df_in,      \* user_df as it was when the call was made
    item_df_in,      \* item_df as it was when the call was made
    uip_args,        \* user_item_pairs: user_col, item_col, user_item_filter_df, shuffle
    users_items,     \* user_item_pairs: what the call produced
    nfs_df,          \* negative_feedback_sampler: input dataframe
    nfs_args,        \* col_user, col_item, number_neg_per_pos, seed
    nfs_result,      \* negative_feedback_sampler: what the call produced
    nfs_prev,        \* input and result of the call made before this one
    rng,             \* numpy's generator: rng[seed][n] is RandomState(seed).permutation(n)
    ffm_df,          \* libffm_converter: input dataframe, as its sequence of columns
    ffm_args,        \* col_rating, filepath
    field_feature_dict, \* libffm_converter: the dictionary the call built
    ffm_result,      \* libffm_converter: what the call produced
    ffm_file         \* the text file at filepath

fb_vars == <<df, filter_by_df, filter_by_cols, fb_result>>

uip_vars == <<user_df, item_df, user_df_in, item_df_in, uip_args, users_items>>

nfs_vars == <<nfs_df, nfs_args, nfs_result, nfs_prev, rng>>

ffm_vars == <<ffm_df, ffm_args, field_feature_dict, ffm_result, ffm_file>>

vars == <<pc, fb_vars, uip_vars, nfs_vars, ffm_vars>>

(***************************************************************************)
(* Generic helpers.                                                        *)
(***************************************************************************)
Range(s) == {s[i] : i \in DOMAIN s}

SeqsUpTo(S, n) == UNION {[1..k -> S] : k \in 0..n}

RECURSIVE SelectIdx(_, _, _)
\* The rows of `rows` at the positions i >= `from` where keep[i] holds, in order.
SelectIdx(rows, keep, from) ==
    IF from > Len(rows) THEN <<>>
    ELSE (IF keep[from] THEN <<rows[from]>> ELSE <<>>)
         \o SelectIdx(rows, keep, from + 1)

Table(cols, rows) == [columns |-> cols, rows |-> rows]

NoTable == Table(<<>>, <<>>)

\* The outcome of a call: raised is "None" when the call returned `table`.
Returned(t) == [raised |-> "None", table |-> t]

Raised(e) == [raised |-> e, table |-> NoTable]

NotCalled == [raised |-> "NotCalled", table |-> NoTable]

HasColumn(t, c) == \E i \in 1..Len(t.columns) : t.columns[i] = c

ColIndex(t, c) == CHOOSE i \in 1..Len(t.columns) : t.columns[i] = c

\* No filter dataframe given (user_item_filter_df=None).
NoFilter == [given |-> FALSE, table |-> NoTable]

Filter(t) == [given |-> TRUE, table |-> t]

(***************************************************************************)
(* A function that is not called in a specification keeps its variables at *)
(* these values.                                                           *)
(***************************************************************************)
FbIdle ==
    /\ df = NoTable
    /\ filter_by_df = NoTable
    /\ filter_by_cols = <<>>
    /\ fb_result = NotCalled

UipIdle ==
    /\ user_df = NoTable
    /\ item_df = NoTable
    /\ user_df_in = NoTable
    /\ item_df_in = NoTable
    /\ uip_args = [user_col |-> "", item_col |-> "", user_item_filter_df |-> NoFilter,
                   shuffle |-> FALSE]
    /\ users_items = NotCalled

NoPreviousCall == [df |-> NoTable, result |-> NotCalled]

NfsIdle ==
    /\ nfs_df = NoTable
    /\ nfs_args = [col_user |-> "", col_item |-> "", number_neg_per_pos |-> 0, seed |-> 0]
    /\ nfs_result = NotCalled
    /\ nfs_prev = NoPreviousCall
    /\ rng = <<>>

NoFile == [written |-> FALSE, lines |-> <<>>]

NoEncoding == [raised |-> "NotCalled", columns |-> <<>>, label |-> <<>>, tokens |-> <<>>]

FfmIdle ==
    /\ ffm_df = <<>>
    /\ ffm_args = [col_rating |-> "", filepath |-> FALSE]
    /\ field_feature_dict = {}
    /\ ffm_result = NoEncoding
    /\ ffm_file = NoFile

(***************************************************************************)
(* filter_by (lines 55-72).                                                *)
(***************************************************************************)
\* A projection that takes the first Len(cols) cells of each row, whatever the
\* columns are called.
set_index_by_position(t, cols) ==
    [r \in 1..Len(t.rows) |-> [k \in 1..Len(cols) |-> t.rows[r][k]]]

\* df.set_index(cols).index: one key tuple per row, in row order.
set_index(t, cols) ==
    [r \in 1..Len(t.rows) |->
        [k \in 1..Len(cols) |-> t.rows[r][ColIndex(t, cols[k])]]]

\* index.isin(values): per position, whether the key occurs among values.
isin(index, values) == [r \in DOMAIN index |-> index[r] \in Range(values)]

\* df.loc[mask]: the rows where mask holds; columns and row order kept.
loc(t, mask) == Table(t.columns, SelectIdx(t.rows, mask, 1))

\* ~df.set_index(cols).index.isin(filter_by_df.set_index(cols).index)
filter_by_mask(t, f, cols) ==
    [r \in 1..Len(t.rows) |-> ~isin(set_index(t, cols), set_index(f, cols))[r]]

filter_by(t, f, cols) ==
    IF \E k \in 1..Len(cols) : ~HasColumn(t, cols[k]) \/ ~HasColumn(f, cols[k])
    THEN Raised("KeyError")
    ELSE Returned(loc(t, filter_by_mask(t, f, cols)))

(***************************************************************************)
(* Calls of filter_by.                                                     *)
(***************************************************************************)
FbMaxRows == 2
FbMaxFilterRows == 2

FbUsers == {1, 2}
FbItems == {11, 12}
FbRatings == {4, 5}

FbSourceColumns == <<"userID", "itemID", "rating">>
FbFilterColumns == <<"itemID", "userID">>

FbSources ==
    {Table(FbSourceColumns, rows) :
        rows \in SeqsUpTo({<<u, i, r>> : u \in FbUsers, i \in FbItems, r \in FbRatings},
                          FbMaxRows)}

FbFilters ==
    {Table(FbFilterColumns, rows) :
        rows \in SeqsUpTo({<<i, u>> : i \in FbItems, u \in FbUsers}, FbMaxFilterRows)}

FbKeyLists ==
    {<<"userID">>, <<"userID", "itemID">>, <<"itemID", "userID">>, <<"itemID", "rating">>}

InitFB ==
    /\ pc = "call"
    /\ UipIdle
    /\ NfsIdle
    /\ FfmIdle
    /\ df \in FbSources
    /\ filter_by_df \in FbFilters \cup {df}
    /\ filter_by_cols \in FbKeyLists
    /\ fb_result = NotCalled

FilterBy ==
    /\ pc = "call"
    /\ fb_result' = filter_by(df, filter_by_df, filter_by_cols)
    /\ pc' = "returned"
    /\ UNCHANGED <<df, filter_by_df, filter_by_cols, uip_vars, nfs_vars, ffm_vars>>

NextFB == FilterBy

SpecFB == InitFB /\ [][NextFB]_vars

(***************************************************************************)
(* user_item_pairs (lines 14-52).                                          *)
(***************************************************************************)
RemoveAt(s, i) == [k \in 1..(Len(s) - 1) |-> IF k < i THEN s[k] ELSE s[k + 1]]

\* df[c] = v: every cell of column c becomes v; the column is appended when the
\* dataframe has no column of that name, and overwritten in place when it has.
set_column(t, c, v) ==
    IF HasColumn(t, c)
    THEN Table(t.columns,
               [r \in 1..Len(t.rows) |->
                   [k \in 1..Len(t.columns) |->
                       IF k = ColIndex(t, c) THEN v ELSE t.rows[r][k]]])
    ELSE Table(Append(t.columns, c), [r \in 1..Len(t.rows) |-> Append(t.rows[r], v)])

\* df.drop(c, axis=1): the dataframe without column c.
drop(t, c) ==
    Table(RemoveAt(t.columns, ColIndex(t, c)),
          [r \in 1..Len(t.rows) |-> RemoveAt(t.rows[r], ColIndex(t, c))])

\* The column names of left.merge(right, on=key): the left columns, then the
\* right columns without the key; a name other than the key that both sides
\* use gets the suffix _x on the left and _y on the right.
merge_columns(left, right, key) ==
    LET lname(c) == IF c # key /\ HasColumn(right, c) THEN c \o "_x" ELSE c
        rname(c) == IF HasColumn(left, c) THEN c \o "_y" ELSE c
        rcols == drop(right, key).columns
    IN  [k \in 1..Len(left.columns) |-> lname(left.columns[k])]
        \o [k \in 1..Len(rcols) |-> rname(rcols[k])]

RECURSIVE merge_rows(_, _, _, _, _)
\* The rows of the inner join, from left row l and right row r on: left order
\* first, and for one left row its matches in right order.
merge_rows(left, right, key, l, r) ==
    IF l > Len(left.rows) THEN <<>>
    ELSE IF r > Len(right.rows) THEN merge_rows(left, right, key, l + 1, 1)
    ELSE (IF left.rows[l][ColIndex(left, key)] = right.rows[r][ColIndex(right, key)]
          THEN <<left.rows[l] \o RemoveAt(right.rows[r], ColIndex(right, key))>>
          ELSE <<>>)
         \o merge_rows(left, right, key, l, r + 1)

\* left.merge(right, on=key)
merge(left, right, key) ==
    Table(merge_columns(left, right, key), merge_rows(left, right, key, 1, 1))

\* Lines 37-43: what user_df, item_df and users_items are after the join key
\* was added to both inputs, the join made and the key dropped from all three.
cross_join(u, i) ==
    LET uk == set_column(u, "key", 1)
        ik == set_column(i, "key", 1)
    IN  [user_df |-> drop(uk, "key"),
         item_df |-> drop(ik, "key"),
         users_items |-> drop(merge(uk, ik, "key"), "key")]

\* Lines 45-47.
apply_filter(t, args) ==
    IF args.user_item_filter_df.given
    THEN filter_by(t, args.user_item_filter_df.table, <<args.user_col, args.item_col>>)
    ELSE Returned(t)

RowOrders(n) == {p \in [1..n -> 1..n] : \A a, b \in 1..n : p[a] = p[b] => a = b}

\* df.sample(frac=1).reset_index(drop=True) with the row order p.
reorder(t, p) == Table(t.columns, [k \in 1..Len(t.rows) |-> t.rows[p[k]]])

(***************************************************************************)
(* Calls of user_item_pairs.                                               *)
(***************************************************************************)
UipMaxUsers == 2
UipMaxItems == 2
UipMaxFilterRows == 2

UipUserIds == 1..UipMaxUsers
UipItemIds == 11..(10 + UipMaxItems)

\* The non-empty sequences of at most n different ids.
DistinctSeqs(S, n) ==
    {s \in SeqsUpTo(S, n) : s # <<>> /\ \A a, b \in 1..Len(s) : s[a] = s[b] => a = b}

\* The user tables: the id column is named by user_col, and there may be one
\* feature column.
UipUserLayouts ==
    {[user_col |-> "userID", columns |-> <<"userID">>],
     [user_col |-> "userID", columns |-> <<"userID", "age">>],
     [user_col |-> "userID", columns |-> <<"userID", "key">>],
     [user_col |-> "key", columns |-> <<"key", "age">>]}

UipItemLayouts ==
    {[item_col |-> "itemID", columns |-> <<"itemID">>],
     [item_col |-> "itemID", columns |-> <<"itemID", "age">>],
     [item_col |-> "itemID", columns |-> <<"key", "itemID">>]}

\* A table of the ids `ids` with the columns `cols`: the id column holds the
\* id, a feature column the id plus 100.
UipTable(cols, idcol, ids) ==
    Table(cols,
          [r \in 1..Len(ids) |->
              [k \in 1..Len(cols) |-> IF cols[k] = idcol THEN ids[r] ELSE ids[r] + 100]])

UipFilters(ucol, icol, uids, iids) ==
    {NoFilter} \cup
    {Filter(Table(<<ucol, icol>>, rows)) :
        rows \in SeqsUpTo({<<u, i>> : u \in Range(uids), i \in Range(iids)},
                          UipMaxFilterRows)}

InitUIP ==
    /\ pc = "call"
    /\ FbIdle
    /\ NfsIdle
    /\ FfmIdle
    /\ \E ul \in UipUserLayouts, il \in UipItemLayouts :
       \E uids \in DistinctSeqs(UipUserIds, UipMaxUsers),
          iids \in DistinctSeqs(UipItemIds, UipMaxItems) :
          /\ user_df = UipTable(ul.columns, ul.user_col, uids)
          /\ item_df = UipTable(il.columns, il.item_col, iids)
          /\ \E f \in UipFilters(ul.user_col, il.item_col, uids, iids) :
             \E sh \in BOOLEAN :
                uip_args = [user_col |-> ul.user_col, item_col |-> il.item_col,
                            user_item_filter_df |-> f, shuffle |-> sh]
    /\ user_df_in = user_df
    /\ item_df_in = item_df
    /\ users_items = NotCalled

UserItemPairs ==
    /\ pc = "call"
    /\ LET j == cross_join(user_df, item_df)
           f == apply_filter(j.users_items, uip_args)
       IN  /\ user_df' = j.user_df
           /\ item_df' = j.item_df
           /\ IF f.raised = "None" /\ uip_args.shuffle
              THEN \E p \in RowOrders(Len(f.table.rows)) :
                      users_items' = Returned(reorder(f.table, p))
              ELSE users_items' = f
    /\ pc' = "returned"
    /\ UNCHANGED <<user_df_in, item_df_in, uip_args, fb_vars, nfs_vars, ffm_vars>>

NextUIP == UserItemPairs

SpecUIP == InitUIP /\ [][NextUIP]_vars

(***************************************************************************)
(* negative_feedback_sampler (lines 169-256).                              *)
(***************************************************************************)
Min(a, b) == IF a <= b THEN a ELSE b

RECURSIVE unique(_)
\* Series.unique(): the distinct values in order of first appearance.
unique(s) ==
    IF s = <<>> THEN <<>>
    ELSE LET front == unique(SubSeq(s, 1, Len(s) - 1))
             last == s[Len(s)]
         IN  IF last \in Range(front) THEN front ELSE Append(front, last)

column(t, c) == [r \in 1..Len(t.rows) |-> t.rows[r][ColIndex(t, c)]]

\* Line 222: one (user, item) tuple per input row.
user_item_tuples(t, col_user, col_item) ==
    [r \in 1..Len(t.rows) |->
        <<t.rows[r][ColIndex(t, col_user)], t.rows[r][ColIndex(t, col_item)]>>]

\* A labelling that counts how often the pair occurs among the input rows.
feedback_counting(user, item, tuples) ==
    Cardinality({r \in 1..Len(tuples) : tuples[r] = <<user, item>>})

\* Line 228.
feedback(user, item, tuples) == IF <<user, item>> \in Range(tuples) THEN 1 ELSE 0

\* Lines 225-231: a row (user, item, rating) for every user and every item,
\* users outermost.
user_item_feedback(users, items, tuples) ==
    [k \in 1..(Len(users) * Len(items)) |->
        LET user == users[((k - 1) \div Len(items)) + 1]
            item == items[((k - 1) % Len(items)) + 1]
        IN  <<user, item, feedback(user, item, tuples)>>]

\* df_all[df_all['rating'] == v]
with_rating(rows, v) == SelectSeq(rows, LAMBDA row : row[3] = v)

\* A draw with replacement that repeats its first position.
choice_repeating(seed, len, n) == [k \in 1..n |-> rng[seed][len][1]]

\* RandomState(seed).choice(len, size=n, replace=False): the first n entries
\* of the generator's permutation of the len positions.
choice(seed, len, n) == SubSeq(rng[seed][len], 1, n)

\* x.sample(n=min(number_neg_per_pos, len(x)), random_state=seed, replace=False)
sample(x, number_neg_per_pos, seed) ==
    LET n == Min(number_neg_per_pos, Len(x))
        locs == IF n = 0 THEN <<>> ELSE choice(seed, Len(x), n)
    IN  [k \in 1..n |-> x[locs[k]]]

RECURSIVE sorted_keys(_)
\* The elements of a finite set of integers in ascending order.
sorted_keys(S) ==
    IF S = {} THEN <<>>
    ELSE LET least == CHOOSE a \in S : \A b \in S : a <= b
         IN  <<least>> \o sorted_keys(S \ {least})

RECURSIVE concat_all(_)
concat_all(seqs) == IF seqs = <<>> THEN <<>> ELSE Head(seqs) \o concat_all(Tail(seqs))

\* Lines 240-248: per user, in ascending order of the user, the sampled rows.
groupby_apply_sample(df_neg, number_neg_per_pos, seed) ==
    LET keys == sorted_keys({df_neg[r][1] : r \in 1..Len(df_neg)})
    IN  concat_all([g \in 1..Len(keys) |->
            sample(SelectSeq(df_neg, LAMBDA row : row[1] = keys[g]),
                   number_neg_per_pos, seed)])

\* (user, item) order of sort_values(by=[col_user, col_item]).
RowLess(a, b) == a[1] < b[1] \/ (a[1] = b[1] /\ a[2] < b[2])

RECURSIVE insert_sorted(_, _)
insert_sorted(row, s) ==
    IF s = <<>> THEN <<row>>
    ELSE IF RowLess(row, Head(s)) THEN <<row>> \o s
    ELSE <<Head(s)>> \o insert_sorted(row, Tail(s))

RECURSIVE sort_values(_)
sort_values(rows) ==
    IF rows = <<>> THEN <<>>
    ELSE insert_sorted(rows[Len(rows)], sort_values(SubSeq(rows, 1, Len(rows) - 1)))

negative_feedback_sampler(t, args) ==
    IF ~HasColumn(t, args.col_user) THEN Raised("ValueError: " \o args.col_user)
    ELSE IF ~HasColumn(t, args.col_item) THEN Raised("ValueError: " \o args.col_item)
    ELSE
        LET users == unique(column(t, args.col_user))
            items == unique(column(t, args.col_item))
            df_all == user_item_feedback(users, items,
                          user_item_tuples(t, args.col_user, args.col_item))
            df_pos == with_rating(df_all, 1)
            df_neg == with_rating(df_all, 0)
            df_neg_sample == groupby_apply_sample(df_neg, args.number_neg_per_pos, args.seed)
        IN  Returned(Table(<<args.col_user, args.col_item, "rating">>,
                           sort_values(df_pos \o df_neg_sample)))

(***************************************************************************)
(* Calls of negative_feedback_sampler.                                     *)
(***************************************************************************)
NfsMaxRows == 3
NfsMaxNeg == 2

NfsUsers == {1, 2}
NfsItems == {11, 12, 13}
NfsSeeds == {42}
NfsColumns == <<"userID", "itemID">>

RECURSIVE PermutationFamilies(_)
\* Every way to fix one permutation of 1..n for each n in 1..maxlen.
PermutationFamilies(maxlen) ==
    IF maxlen = 0 THEN {<<>>}
    ELSE {Append(f, p) : f \in PermutationFamilies(maxlen - 1), p \in RowOrders(maxlen)}

\* The generator is a fixed function of the seed and the population size.
Generators(seeds, maxlen) == [seeds -> PermutationFamilies(maxlen)]

NfsTables(users, items, maxrows) ==
    {Table(NfsColumns, rows) :
        rows \in SeqsUpTo({<<u, i>> : u \in users, i \in items}, maxrows)}

NfsColumnArgs ==
    {<<"userID", "itemID">>, <<"user", "itemID">>, <<"userID", "item">>}

InitNFS ==
    /\ pc = "call"
    /\ FbIdle
    /\ UipIdle
    /\ FfmIdle
    /\ nfs_df \in NfsTables(NfsUsers, NfsItems, NfsMaxRows)
    /\ \E c \in NfsColumnArgs, n \in 0..NfsMaxNeg, s \in NfsSeeds :
          nfs_args = [col_user |-> c[1], col_item |-> c[2],
                      number_neg_per_pos |-> n, seed |-> s]
    /\ nfs_result = NotCalled
    /\ nfs_prev = NoPreviousCall
    /\ rng \in Generators(NfsSeeds, Cardinality(NfsItems) - 1)

NegativeFeedbackSampler ==
    /\ pc = "call"
    /\ nfs_result' = negative_feedback_sampler(nfs_df, nfs_args)
    /\ pc' = "returned"
    /\ UNCHANGED <<nfs_df, nfs_args, nfs_prev, rng, fb_vars, uip_vars, ffm_vars>>

NextNFS == NegativeFeedbackSampler

SpecNFS == InitNFS /\ [][NextNFS]_vars

(***************************************************************************)
(* Calls on a catalogue of four items, where a user with two observed      *)
(* items still has two unobserved ones.                                    *)
(***************************************************************************)
NfsWideRows == 4

NfsWideItems == {11, 12, 13, 14}

InitNFSWide ==
    /\ pc = "call"
    /\ FbIdle
    /\ UipIdle
    /\ FfmIdle
    /\ nfs_df \in NfsTables(NfsUsers, NfsWideItems, NfsWideRows)
    /\ \E n \in 1..NfsMaxNeg, s \in NfsSeeds :
          nfs_args = [col_user |-> "userID", col_item |-> "itemID",
                      number_neg_per_pos |-> n, seed |-> s]
    /\ nfs_result = NotCalled
    /\ nfs_prev = NoPreviousCall
    /\ rng \in Generators(NfsSeeds, Cardinality(NfsWideItems) - 1)

SpecNFSWide == InitNFSWide /\ [][NextNFS]_vars

(***************************************************************************)
(* Two calls in a row with the same seed and number_neg_per_pos, the       *)
(* second on a table with the same interactions as the first: its rows in  *)
(* any order, any of them repeated, up to one row more than the first      *)
(* table may have.                                                         *)
(***************************************************************************)
DetMaxRows == 3

DetNegs == {1}

SameInteractions(t, maxrows) ==
    {Table(t.columns, rows) :
        rows \in {x \in SeqsUpTo(Range(t.rows), maxrows) : Range(x) = Range(t.rows)}}

InitDet ==
    /\ pc = "call"
    /\ FbIdle
    /\ UipIdle
    /\ FfmIdle
    /\ nfs_df \in NfsTables(NfsUsers, NfsItems, DetMaxRows)
    /\ \E n \in DetNegs, s \in NfsSeeds :
          nfs_args = [col_user |-> "userID", col_item |-> "itemID",
                      number_neg_per_pos |-> n, seed |-> s]
    /\ nfs_result = NotCalled
    /\ nfs_prev = NoPreviousCall
    /\ rng \in Generators(NfsSeeds, Cardinality(NfsItems) - 1)

\* The caller keeps the result and calls again.
CallAgain ==
    /\ pc = "returned"
    /\ nfs_prev = NoPreviousCall
    /\ nfs_prev' = [df |-> nfs_df, result |-> nfs_result]
    /\ nfs_df' \in SameInteractions(nfs_df, DetMaxRows + 1)
    /\ nfs_result' = NotCalled
    /\ pc' = "call"
    /\ UNCHANGED <<nfs_args, rng, fb_vars, uip_vars, ffm_vars>>

NextDet == NegativeFeedbackSampler \/ CallAgain

SpecDet == InitDet /\ [][NextDet]_vars

(***************************************************************************)
(* libffm_converter (lines 75-166).                                        *)
(*                                                                         *)
(* Here a dataframe is its sequence of columns [name, dtype, values].  A   *)
(* cell is [kind, s, n]: a Python str (kind "str", text s), an int (kind   *)
(* "int", value n), a float (kind "float", n tenths) or a bool.  A Python  *)
(* string built by format() is the sequence of its characters.             *)
(***************************************************************************)
StrCell(s) == [kind |-> "str", s |-> s, n |-> 0]

IntCell(n) == [kind |-> "int", s |-> "", n |-> n]

FloatCell(tenths) == [kind |-> "float", s |-> "", n |-> tenths]

BoolCell(b) == [kind |-> "bool", s |-> "", n |-> b]

Column(name, dtype, values) == [name |-> name, dtype |-> dtype, values |-> values]

DigitChars == <<"0", "1", "2", "3", "4", "5", "6", "7", "8", "9">>

RECURSIVE NatToStr(_)
NatToStr(n) ==
    IF n < 10 THEN <<DigitChars[n + 1]>>
    ELSE NatToStr(n \div 10) \o <<DigitChars[(n % 10) + 1]>>

\* str() of a cell, as "{}".format(cell) and '%s' % cell give it.
str(cell) ==
    CASE cell.kind = "int" ->
            IF cell.n < 0 THEN <<"-">> \o NatToStr(-cell.n) ELSE NatToStr(cell.n)
      [] cell.kind = "float" ->
            NatToStr(cell.n \div 10) \o <<".">> \o NatToStr(cell.n % 10)
      [] cell.kind = "bool" -> IF cell.n = 1 THEN <<"True">> ELSE <<"False">>
      [] OTHER -> <<cell.s>>

\* Line 130: x == object or np.issubdtype(x, np.integer) or x == np.float
dtype_accepted(dtype) == dtype = "object" \/ dtype = "int64" \/ dtype = "float64"

\* Lines 129-131, over the dtypes of all columns of the dataframe.
types_ok(columns) == \A k \in 1..Len(columns) : dtype_accepted(columns[k].dtype)

\* Line 133: the columns without the rating column, in their order.
field_columns(columns, col_rating) ==
    SelectSeq(columns, LAMBDA c : c.name # col_rating)

InDict(dict, field, feature) ==
    \E e \in dict : e.field = field /\ e.feature = feature

Lookup(dict, field, feature) ==
    (CHOOSE e \in dict : e.field = field /\ e.feature = feature).code

\* An insertion that numbers the features of each field from 1.
dict_insert_per_field(st, field, feature) ==
    [dict |-> st.dict \cup
                {[field |-> field, feature |-> feature,
                  code |-> Cardinality({e \in st.dict : e.field = field}) + 1]},
     idx |-> st.idx + 1]

\* Lines 144-145.
dict_insert(st, field, feature) ==
    [dict |-> st.dict \cup {[field |-> field, feature |-> feature, code |-> st.idx]},
     idx |-> st.idx + 1]

RECURSIVE scan_values(_, _, _)
\* Lines 140-145: the values of one column, top to bottom from row r.
scan_values(col, r, st) ==
    IF r > Len(col.values) THEN st
    ELSE scan_values(col, r + 1,
            IF InDict(st.dict, col.name, col.values[r]) THEN st
            ELSE dict_insert(st, col.name, col.values[r]))

RECURSIVE scan_fields(_, _, _)
\* Lines 138-145: the fields in order from field j; only object columns are
\* scanned.
scan_fields(fields, j, st) ==
    IF j > Len(fields) THEN st
    ELSE scan_fields(fields, j + 1,
            IF fields[j].dtype = "object" THEN scan_values(fields[j], 1, st) ELSE st)

\* Lines 136-145.
encode_field_feature(fields) == scan_fields(fields, 1, [dict |-> {}, idx |-> 1]).dict

\* "{}:{}:{}".format(a, b, c)
format3(a, b, c) == str(a) \o <<":">> \o str(b) \o <<":">> \o str(c)

\* A conversion that emits the constant 1 for every cell.
convert_constant(field, feature, field_index, dict) ==
    IF feature.kind = "str"
    THEN format3(IntCell(field_index), IntCell(Lookup(dict, field, feature)), IntCell(1))
    ELSE format3(IntCell(field_index), IntCell(field_index), IntCell(1))

\* Lines 147-154.
convert(field, feature, field_index, dict) ==
    IF feature.kind = "str"
    THEN format3(IntCell(field_index), IntCell(Lookup(dict, field, feature)), IntCell(1))
    ELSE format3(IntCell(field_index), IntCell(field_index), feature)

\* Lines 156-157: every field column, cell by cell.
convert_fields(fields, dict) ==
    [j \in 1..Len(fields) |->
        [r \in 1..Len(fields[j].values) |->
            convert(fields[j].name, fields[j].values[r], j, dict)]]

RECURSIVE join(_, _)
join(words, sep) ==
    IF words = <<>> THEN <<>>
    ELSE IF Len(words) = 1 THEN words[1]
    ELSE words[1] \o <<sep>> \o join(Tail(words), sep)

\* Line 164: np.savetxt(filepath, df_new.values, delimiter=' ', fmt='%s')
savetxt(label, tokens) ==
    [r \in 1..Len(label) |->
        join(<<str(label[r])>> \o [j \in 1..Len(tokens) |-> tokens[j][r]], " ")]

\* The state the call leaves: the dictionary, the result and the file.
libffm_converter(columns, args) ==
    IF ~types_ok(columns)
    THEN [dict |-> {},
          result |-> [raised |-> "TypeError", columns |-> <<>>, label |-> <<>>,
                      tokens |-> <<>>],
          file |-> NoFile]
    ELSE
        LET fields == field_columns(columns, args.col_rating)
            dict == encode_field_feature(fields)
            tokens == convert_fields(fields, dict)
            label == (CHOOSE c \in Range(columns) : c.name = args.col_rating).values
        IN  [dict |-> dict,
             result |-> [raised |-> "None",
                         columns |-> <<args.col_rating>>
                                       \o [j \in 1..Len(fields) |-> fields[j].name],
                         label |-> label,
                         tokens |-> tokens],
             file |-> IF args.filepath
                      THEN [written |-> TRUE, lines |-> savetxt(label, tokens)]
                      ELSE NoFile]

(***************************************************************************)
(* Calls of libffm_converter.                                              *)
(***************************************************************************)
FfmMaxRows == 2

FfmFieldNames == <<"field1", "field2">>

\* The columns of r rows a field may be: an object column of strings and
\* ints, an int64 column, a float64 column, and one float32 and one bool
\* column.
FfmFieldValues(r) ==
    {[dtype |-> "object", values |-> v] :
        v \in [1..r -> {StrCell("a"), StrCell("b"), IntCell(1)}]}
    \cup {[dtype |-> "int64", values |-> v] : v \in [1..r -> {IntCell(1), IntCell(12)}]}
    \cup {[dtype |-> "float64", values |-> v] : v \in [1..r -> {FloatCell(10), FloatCell(25)}]}
    \cup {[dtype |-> "float32", values |-> [k \in 1..r |-> FloatCell(10)]],
          [dtype |-> "bool", values |-> [k \in 1..r |-> BoolCell(1)]]}

FfmLabelValues(r) ==
    {[dtype |-> "int64", values |-> v] : v \in [1..r -> {IntCell(0), IntCell(1)}]}
    \cup {[dtype |-> "bool", values |-> [k \in 1..r |-> BoolCell(1)]]}

FfmFrames(r) ==
    {LET fields == [j \in 1..n |-> Column(FfmFieldNames[j], f[j].dtype, f[j].values)]
         rating == <<Column("rating", l.dtype, l.values)>>
     IN  IF first THEN rating \o fields ELSE fields \o rating :
        n \in 1..Len(FfmFieldNames), f \in [1..Len(FfmFieldNames) -> FfmFieldValues(r)],
        l \in FfmLabelValues(r), first \in BOOLEAN}

\* The dataframe of the docstring (lines 101-107).
FfmDocExample ==
    <<Column("rating", "int64",
             <<IntCell(1), IntCell(0), IntCell(0), IntCell(1), IntCell(1)>>),
      Column("field1", "object",
             <<StrCell("xxx1"), StrCell("xxx2"), StrCell("xxx4"), StrCell("xxx4"),
               StrCell("xxx4")>>),
      Column("field2", "int64",
             <<IntCell(3), IntCell(4), IntCell(5), IntCell(6), IntCell(7)>>),
      Column("field3", "float64",
             <<FloatCell(10), FloatCell(20), FloatCell(30), FloatCell(40), FloatCell(50)>>),
      Column("field4", "object",
             <<StrCell("1"), StrCell("2"), StrCell("3"), StrCell("4"), StrCell("5")>>)>>

InitFFM ==
    /\ pc = "call"
    /\ FbIdle
    /\ UipIdle
    /\ NfsIdle
    /\ ffm_df \in UNION {FfmFrames(r) : r \in 1..FfmMaxRows} \cup {FfmDocExample}
    /\ \E path \in BOOLEAN : ffm_args = [col_rating |-> "rating", filepath |-> path]
    /\ field_feature_dict = {}
    /\ ffm_result = NoEncoding
    /\ ffm_file = NoFile

LibffmConverter ==
    /\ pc = "call"
    /\ LET out == libffm_converter(ffm_df, ffm_args)
       IN  /\ field_feature_dict' = out.dict
           /\ ffm_result' = out.result
           /\ ffm_file' = out.file
    /\ pc' = "returned"
    /\ UNCHANGED <<ffm_df, ffm_args, fb_vars, uip_vars, nfs_vars>>

NextFFM == LibffmConverter

SpecFFM == InitFFM /\ [][NextFFM]_vars

(***************************************************************************)
(* Properties of filter_by.                                                *)
(***************************************************************************)
FbKeysPresent ==
    \A k \in 1..Len(filter_by_cols) :
        HasColumn(df, filter_by_cols[k]) /\ HasColumn(filter_by_df, filter_by_cols[k])

\* Source row r agrees with some row of the filter table on every key column.
FbKeyInFilter(r) ==
    \E q \in 1..Len(filter_by_df.rows) :
        \A k \in 1..Len(filter_by_cols) :
            df.rows[r][ColIndex(df, filter_by_cols[k])]
                = filter_by_df.rows[q][ColIndex(filter_by_df, filter_by_cols[k])]

FbKept == {r \in 1..Len(df.rows) : ~FbKeyInFilter(r)}

\* The k-th smallest position of FbKept.
FbNthKept(k) == CHOOSE r \in FbKept : Cardinality({q \in FbKept : q <= r}) = k

\* C2: with the key columns present in both tables, filter_by returns exactly
\* the source rows whose key is the key of no filter row, in their original
\* order and with all columns unchanged; a filter equal to the source gives an
\* empty result, a filter with no rows gives the source back.
C2_FilterByExact ==
    (pc = "returned" /\ FbKeysPresent) =>
        /\ fb_result.raised = "None"
        /\ fb_result.table.columns = df.columns
        /\ Len(fb_result.table.rows) = Cardinality(FbKept)
        /\ \A k \in 1..Len(fb_result.table.rows) :
              fb_result.table.rows[k] = df.rows[FbNthKept(k)]
        /\ (filter_by_df = df => fb_result.table.rows = <<>>)
        /\ (filter_by_df.rows = <<>> => fb_result.table = df)

\* A call on a two-column key whose filter names the first source row twice:
\* the first row is removed and the second returned.
C2_Witness ==
    /\ pc = "returned"
    /\ FbKeysPresent
    /\ Len(filter_by_cols) = 2
    /\ Len(df.rows) = 2
    /\ FbKept = {2}
    /\ Len(filter_by_df.rows) = 2
    /\ filter_by_df.rows[1] = filter_by_df.rows[2]
    /\ fb_result = Returned(Table(df.columns, <<df.rows[2]>>))

(***************************************************************************)
(* Properties of user_item_pairs.                                          *)
(***************************************************************************)
UipIds(t, c) == {t.rows[r][ColIndex(t, c)] : r \in 1..Len(t.rows)}

UipCross ==
    {<<u, i>> : u \in UipIds(user_df_in, uip_args.user_col),
                i \in UipIds(item_df_in, uip_args.item_col)}

UipFilterKeys ==
    IF uip_args.user_item_filter_df.given
    THEN Range(set_index(uip_args.user_item_filter_df.table,
                         <<uip_args.user_col, uip_args.item_col>>))
    ELSE {}

UipOutPairs == set_index(users_items.table, <<uip_args.user_col, uip_args.item_col>>)

UipPairsExact ==
    /\ users_items.raised = "None"
    /\ HasColumn(users_items.table, uip_args.user_col)
    /\ HasColumn(users_items.table, uip_args.item_col)
    /\ Len(users_items.table.rows)
          = Len(user_df_in.rows) * Len(item_df_in.rows) - Cardinality(UipFilterKeys)
    /\ Range(UipOutPairs) = UipCross \ UipFilterKeys
    /\ \A a, b \in 1..Len(UipOutPairs) : UipOutPairs[a] = UipOutPairs[b] => a = b

\* C1: for n distinct user ids, m distinct item ids and a filter of k distinct
\* keys of the cross product (k = 0 without a filter), shuffled or not, the
\* output has n*m - k rows and its (user, item) pairs are exactly the cross
\* product minus the filter keys, each once.
C1_PairsExact == pc = "returned" => UipPairsExact

\* The same when neither id column is named like the join key of line 37.
UipPairsExactUnlessIdIsKey ==
    (pc = "returned" /\ uip_args.user_col # "key" /\ uip_args.item_col # "key")
        => UipPairsExact

\* C3: when user_item_pairs returns, user_df and item_df have the columns and
\* cells they had before the call, and the join key added by the call is in
\* neither of them nor in the output.
C3_InputsNotMutated ==
    pc = "returned" =>
        /\ user_df = user_df_in
        /\ item_df = item_df_in
        /\ ~HasColumn(user_df_in, "key") => ~HasColumn(user_df, "key")
        /\ ~HasColumn(item_df_in, "key") => ~HasColumn(item_df, "key")
        /\ (~HasColumn(user_df_in, "key") /\ ~HasColumn(item_df_in, "key"))
              => ~HasColumn(users_items.table, "key")

\* The same for inputs that have no column named like the join key.
UipInputsKeptUnlessKeyColumn ==
    (pc = "returned" /\ ~HasColumn(user_df_in, "key") /\ ~HasColumn(item_df_in, "key"))
        => /\ user_df = user_df_in
           /\ item_df = item_df_in
           /\ ~HasColumn(users_items.table, "key")

(***************************************************************************)
(* Properties of negative_feedback_sampler.                                *)
(***************************************************************************)
NfsReturned ==
    /\ pc = "returned"
    /\ HasColumn(nfs_df, nfs_args.col_user)
    /\ HasColumn(nfs_df, nfs_args.col_item)

\* The observed pairs S, users U and items I of the input.
NfsS == Range(user_item_tuples(nfs_df, nfs_args.col_user, nfs_args.col_item))

NfsU == {pr[1] : pr \in NfsS}

NfsI == {pr[2] : pr \in NfsS}

NfsOut == nfs_result.table.rows

\* The positions of the output rows of user u labelled 0.
NfsNegatives(u) == {k \in 1..Len(NfsOut) : NfsOut[k][1] = u /\ NfsOut[k][3] = 0}

NfsPositives(u) == {pr \in NfsS : pr[1] = u}

C6_NegativesPerPositive ==
    NfsReturned =>
        \A u \in NfsU :
            LET p == Cardinality(NfsPositives(u))
            IN  Cardinality(NfsI) - p >= nfs_args.number_neg_per_pos * p
                    => Cardinality(NfsNegatives(u)) = nfs_args.number_neg_per_pos * p

NfsSecondReturned ==
    /\ pc = "returned"
    /\ nfs_prev.result.raised = "None"
    /\ nfs_result.raised = "None"
    /\ Range(nfs_prev.df.rows) = Range(nfs_df.rows)

NfsSameFirstAppearance ==
    /\ unique(column(nfs_prev.df, nfs_args.col_user))
          = unique(column(nfs_df, nfs_args.col_user))
    /\ unique(column(nfs_prev.df, nfs_args.col_item))
          = unique(column(nfs_df, nfs_args.col_item))

RECURSIVE Split(_, _)
\* The parts of a string between the separators.
Split(chars, sep) ==
    IF chars = <<>> THEN << <<>> >>
    ELSE LET rest == Split(Tail(chars), sep)
         IN  IF Head(chars) = sep THEN << <<>> >> \o rest
             ELSE << <<Head(chars)>> \o rest[1] >> \o Tail(rest)

IsNat(chars) == chars # <<>> /\ \A k \in 1..Len(chars) : chars[k] \in Range(DigitChars)

DigitValue(c) == CHOOSE d \in 0..9 : DigitChars[d + 1] = c

RECURSIVE ParseNat(_)
ParseNat(chars) ==
    IF Len(chars) = 1 THEN DigitValue(chars[1])
    ELSE 10 * ParseNat(SubSeq(chars, 1, Len(chars) - 1)) + DigitValue(chars[Len(chars)])

\* Whether the text is the literal of the int or float cell.
IsLiteralOf(chars, cell) ==
    IF cell.kind = "int" THEN IsNat(chars) /\ ParseNat(chars) = cell.n
    ELSE LET parts == Split(chars, ".")
         IN  /\ cell.kind = "float"
             /\ Len(parts) = 2
             /\ IsNat(parts[1]) /\ IsNat(parts[2]) /\ Len(parts[2]) = 1
             /\ 10 * ParseNat(parts[1]) + ParseNat(parts[2]) = cell.n

FfmFields == field_columns(ffm_df, ffm_args.col_rating)

FfmLabel == (CHOOSE c \in Range(ffm_df) : c.name = ffm_args.col_rating).values

\* A categorical column holds text; a numeric one integers or floats.
FfmCategorical(col) ==
    col.dtype = "object" /\ \A r \in 1..Len(col.values) : col.values[r].kind = "str"

FfmNumeric(col) == col.dtype \in {"int64", "float64", "float32"}

FfmTyped == \A j \in 1..Len(FfmFields) : FfmCategorical(FfmFields[j]) \/ FfmNumeric(FfmFields[j])

FfmEncoded == pc = "returned" /\ ffm_result.raised = "None"

FfmToken(j, r) == Split(ffm_result.tokens[j][r], ":")

\* The dictionary entries whose code is the second part of the token.
FfmDecoded(j, r) ==
    {e \in field_feature_dict :
        IsNat(FfmToken(j, r)[2]) /\ e.code = ParseNat(FfmToken(j, r)[2])}

FfmTokensDecode ==
    \A j \in 1..Len(FfmFields) :
        /\ \A r1, r2 \in 1..Len(FfmFields[j].values) :
              FfmFields[j].values[r1] # FfmFields[j].values[r2]
                  => ffm_result.tokens[j][r1] # ffm_result.tokens[j][r2]
        /\ \A r \in 1..Len(FfmFields[j].values) :
              IF FfmFields[j].values[r].kind = "str"
              THEN FfmDecoded(j, r)
                     = {[field |-> FfmFields[j].name, feature |-> FfmFields[j].values[r],
                         code |-> ParseNat(FfmToken(j, r)[2])]}
              ELSE IsLiteralOf(FfmToken(j, r)[3], FfmFields[j].values[r])

\* C8: decoding an emitted token recovers the cell: within a field, cells
\* with different values never get the same token; the code of a categorical
\* token is the code of exactly the cell's (field, value) in the dictionary;
\* the third part of a numeric token is the cell's literal value.
C8_TokensDecode == FfmEncoded => FfmTokensDecode

\* The same on tables whose non-label columns are each text or numeric.
FfmTokensDecodeWhenTyped == (FfmEncoded /\ FfmTyped) => FfmTokensDecode

\* C9: a non-label column that is neither categorical nor numeric makes the
\* call raise a type error with no dictionary entry, no converted table and
\* no file; when every non-label column is categorical or numeric the type
\* check raises nothing.
C9_TypeCheck ==
    pc = "returned" =>
        /\ ~FfmTyped =>
              /\ ffm_result.raised = "TypeError"
              /\ field_feature_dict = {}
              /\ ffm_result.tokens = <<>>
              /\ ffm_file = NoFile
        /\ FfmTyped => ffm_result.raised # "TypeError"

\* The part of C9 about a raised type error.
FfmNothingEncodedOnTypeError ==
    (pc = "returned" /\ ffm_result.raised = "TypeError") =>
        /\ field_feature_dict = {}
        /\ ffm_result.tokens = <<>>
        /\ ffm_result.columns = <<>>
        /\ ffm_file = NoFile

\* The (field, value) pairs of the object columns, which lines 138-145 scan.
FfmScanned ==
    {[field |-> FfmFields[j].name, feature |-> FfmFields[j].values[r]] :
        j \in {k \in 1..Len(FfmFields) : FfmFields[k].dtype = "object"},
        r \in 1..Len(ffm_df[1].values)}

FfmFieldIndex(name) == CHOOSE j \in 1..Len(FfmFields) : FfmFields[j].name = name

FfmFirstRow(e) ==
    LET col == FfmFields[FfmFieldIndex(e.field)]
    IN  CHOOSE r \in 1..Len(col.values) :
            col.values[r] = e.feature /\ \A q \in 1..(r - 1) : col.values[q] # e.feature

\* Entry a is met before entry b when the columns are scanned in order, each
\* top to bottom.
FfmMetBefore(a, b) ==
    \/ FfmFieldIndex(a.field) < FfmFieldIndex(b.field)
    \/ FfmFieldIndex(a.field) = FfmFieldIndex(b.field) /\ FfmFirstRow(a) < FfmFirstRow(b)

FfmCodeOf(field, text) ==
    {e.code : e \in {x \in field_feature_dict :
                        x.field = field /\ x.feature = StrCell(text)}}

\* C10: the dictionary holds exactly the (field, value) pairs of the scanned
\* categorical columns and none of a numeric column; with K such pairs the
\* codes are exactly 1..K, one counter for all fields, different pairs have
\* different codes and a pair met earlier in the scan has the smaller code;
\* on the docstring's dataframe field1 gets 1, 2, 3 and field4 gets 4..8.
C10_DictionaryCodes ==
    FfmEncoded =>
        /\ {[field |-> e.field, feature |-> e.feature] : e \in field_feature_dict}
              = FfmScanned
        /\ Cardinality(field_feature_dict) = Cardinality(FfmScanned)
        /\ {e.code : e \in field_feature_dict} = 1..Cardinality(FfmScanned)
        /\ \A a, b \in field_feature_dict : FfmMetBefore(a, b) => a.code < b.code
        /\ ffm_df = FfmDocExample =>
              /\ FfmCodeOf("field1", "xxx1") = {1}
              /\ FfmCodeOf("field1", "xxx2") = {2}
              /\ FfmCodeOf("field1", "xxx4") = {3}
              /\ FfmCodeOf("field4", "1") = {4}
              /\ FfmCodeOf("field4", "2") = {5}
              /\ FfmCodeOf("field4", "3") = {6}
              /\ FfmCodeOf("field4", "4") = {7}
              /\ FfmCodeOf("field4", "5") = {8}
              /\ Cardinality(field_feature_dict) = 8

\* Two text fields that share the value "a": field2's "a" gets its own code
\* after all the codes of field1.
C10_Witness ==
    /\ FfmEncoded
    /\ Len(FfmFields) = 2
    /\ FfmCodeOf("field1", "a") = {1}
    /\ FfmCodeOf("field1", "b") = {2}
    /\ FfmCodeOf("field2", "b") = {3}
    /\ FfmCodeOf("field2", "a") = {4}

====
